---- MODULE Spec2Model ----
(***************************************************************************)
(* Job orchestration of the collaborative-workspace backend:              *)
(*   - JobService (services/job.service.ts): create, cancel, retry        *)
(*   - the BullMQ queue "jobs" (queues/job.queue.ts)                      *)
(*   - the worker (workers/job.worker.ts): processJob and the 'failed'    *)
(*     listener                                                           *)
(*   - AuthService (services/auth.service.ts): login, refreshToken,       *)
(*     logout, and the authenticate middleware                            *)
(* Every await of the service and of the worker is a separate step, so    *)
(* that calls and worker steps interleave as the event loops and the two  *)
(* processes (API server, worker) allow.                                  *)
(*                                                                         *)
(* Abstractions: a Date is "set" or "null"; a uuid is the position of the *)
(* record in the collection (fresh, unique); the job type and payload are *)
(* opaque and left out; the result of simulateWork is "result".           *)
(***************************************************************************)
EXTENDS Integers, Sequences, FiniteSets, TLC

\* ------------------------------------------------------------------ bounds
\* records the collection holds at most, and at most in each specification
MaxJobs == 3
MaxJobsLife == 1
MaxJobsSubmit == 2
MaxJobsOwners == 2
MaxJobsOutage == 2
MaxJobsList == 2
MaxJobsStats == 2
MaxJobsValidate == 2
MaxJobsKeys == 2
MaxJobsTolerant == 1
MaxJobsLive == 2
MaxJobsBackoff == 2
MaxJobsAccepted == 2
MaxProjCalls == 2
MaxVersion == 2
\* JobService calls in progress at a time
MaxCalls == 2
\* 'failed' events of a job whose update is yet to be applied
MaxPendingFailed == 1
\* token pairs issued, auth calls in progress at a time, and the last tick
MaxTokens == 2
MaxAuthCalls == 2
MaxClock == 3

\* ------------------------------------------------------- program constants
DefaultPriority == 5
MaxAttemptsDefault == 3
QueueAttempts == 3
\* backoff delay: 1000 ms, one tick of the clock
BackoffBase == 1
Concurrency == 5
DefaultLimit == 20
MaxLimit == 100
MinPriority == 1
MaxPriority == 10
SchemaPriority == 5

\* JobStatus
PENDING == "pending"
PROCESSING == "processing"
COMPLETED == "completed"
FAILED == "failed"
JobStatus == {PENDING, PROCESSING, COMPLETED, FAILED}

Null == "null"
Set == "set"
NoKey == "undefined"
NoPriority == 0
NoStatus == "undefined"
CancelledByUser == "Cancelled by user"
SimulatedFailure == "Random simulated processing failure"
WorkResult == "result"

Users == {"u1", "u2"}
Keys == {NoKey, "k1"}
Priorities == {NoPriority, 1}
JobIds == 1..MaxJobs
Slots == 1..MaxCalls
TokenIds == 1..MaxTokens
AuthSlots == 1..MaxAuthCalls
ProjSlots == 1..MaxProjCalls

VARIABLES
    jobs,           \* the Job collection, in insertion order; jobs[i].jobId = i
    queue,          \* BullMQ jobs by jobId: state, priority, attemptsMade, pc
    waiting,        \* jobIds of the waiting BullMQ jobs, in the order they were added
    pendingFailed,  \* 'failed' listener invocations whose update is not yet applied
    calls,          \* the JobService calls in progress
    ret,            \* the outcome of the call that completed last
    now,            \* the time, in ticks
    tokens,         \* the token pairs issued: the expiry of the access and of the
                    \* refresh token of pair t is tokens[t]
    stored,         \* the refresh tokens of the RefreshToken table
    blacklist,      \* the expiry of the key blacklist:<access token> (0: no key)
    authCalls,      \* the AuthService calls and authenticated requests in progress
    authRet,        \* the outcome of the auth call or request that completed last
    loggedOut,      \* the refresh and access tokens of the logout calls that completed
    project,        \* the row of the project in the database: its content is told
                    \* by the number of updates applied to it
    cache,          \* the Redis key project:<projectId>
    projCalls,      \* the ProjectService calls in progress
    projRet,        \* the outcome of the ProjectService call that completed last
    settled         \* what the update and delete calls that returned have applied

jobVars == <<jobs, queue, waiting, pendingFailed, calls, ret>>
authVars == <<now, tokens, stored, blacklist, authCalls, authRet, loggedOut>>
projVars == <<project, cache, projCalls, projRet, settled>>
vars == <<jobs, queue, waiting, pendingFailed, calls, ret,
          now, tokens, stored, blacklist, authCalls, authRet, loggedOut,
          project, cache, projCalls, projRet, settled>>

\* --------------------------------------------------------------- helpers
\* an optional number is {} when it is omitted and {n} when it is n
Omitted == {}
Given(x) == x # {}
Value(x) == CHOOSE v \in x : TRUE

\* if (input.idempotencyKey): undefined and "" are falsy
Truthy(key) == key # NoKey /\ key # ""

\* the default is forgotten
RecordPriorityAsGiven(priority) == priority

\* input.priority || 5
RecordPriority(priority) == IF priority = NoPriority THEN DefaultPriority ELSE priority

\* addJob(data, priority = 5): the default applies to undefined only
QueuePriority(priority) == IF priority = NoPriority THEN DefaultPriority ELSE priority

NoEntry == [state |-> "absent", priority |-> 0, attemptsMade |-> 0, pc |-> "-",
            readyAt |-> 0]

NoSnap == [jobId |-> 0]

Idle == [op |-> "idle", pc |-> "-", jobId |-> 0, userId |-> "-", key |-> NoKey,
         priority |-> 0, snap |-> NoSnap, seen |-> {}]

NoRet == [op |-> "none", code |-> "-", jobId |-> 0, duplicate |-> FALSE]

AuthIdle == [op |-> "idle", pc |-> "-", refresh |-> 0, access |-> 0, ttl |-> 0]

NoAuthRet == [op |-> "none", code |-> "-", token |-> 0]

\* no key project:<projectId>
NoCache == [present |-> FALSE, version |-> 0, exp |-> 0]

\* no update and no delete has returned
NoneSettled == [version |-> 0, deleted |-> FALSE]

ProjIdle == [op |-> "idle", pc |-> "-", version |-> 0, floor |-> NoneSettled]

NoProjRet == [op |-> "none", code |-> "-", version |-> 0, form |-> "-",
              floor |-> NoneSettled]

\* the lookup leaves out the jobs that have completed
KeyMatchesUnlessCompleted(userId, key) ==
    {i \in 1..Len(jobs) : /\ jobs[i].userId = userId
                          /\ jobs[i].idempotencyKey = key
                          /\ jobs[i].status # COMPLETED}

\* the lookup ignores the owner
KeyMatchesAnyUser(userId, key) ==
    {i \in 1..Len(jobs) : jobs[i].idempotencyKey = key}

\* Job.findOne({ idempotencyKey, userId }): the first match in collection order
KeyMatches(userId, key) ==
    {i \in 1..Len(jobs) : jobs[i].userId = userId /\ jobs[i].idempotencyKey = key}

Min(S) == CHOOSE x \in S : \A y \in S : x <= y

FindByKey(userId, key) == Min(KeyMatches(userId, key))

\* the lookup ignores the owner
FindJobAnyUser(jobId, userId) == {i \in 1..Len(jobs) : jobs[i].jobId = jobId}

\* Job.findOne({ jobId, userId })
FindJob(jobId, userId) ==
    {i \in 1..Len(jobs) : jobs[i].jobId = jobId /\ jobs[i].userId = userId}

\* Job.create({...}) with the schema defaults of models/job.model.ts
NewJob(jobId, userId, key, priority) ==
    [jobId |-> jobId, userId |-> userId, idempotencyKey |-> key,
     priority |-> RecordPriority(priority), status |-> PENDING,
     attempts |-> 0, maxAttempts |-> MaxAttemptsDefault,
     error |-> Null, result |-> Null, startedAt |-> Null, completedAt |-> Null]

\* records a step of kind k on job j in every other call in progress on j
Observe(cs, j, k, except) ==
    [c \in Slots |->
        IF c # except /\ cs[c].op # "idle" /\ cs[c].jobId = j
        THEN [cs[c] EXCEPT !.seen = @ \cup {k}]
        ELSE cs[c]]

\* jobQueue.add(name, data, { priority, jobId }): BullMQ ignores an add whose
\* jobId is still in the queue, whatever the state of that job
QueueAdd(q, jobId, priority) ==
    IF q[jobId].state = "absent"
    THEN [q EXCEPT ![jobId] = [state |-> "waiting", priority |-> priority,
                               attemptsMade |-> 0, pc |-> "-", readyAt |-> 0]]
    ELSE q

Remove(w, j) == SelectSeq(w, LAMBDA x : x # j)

\* an add that queues the id whether or not an entry of that id exists
WaitingAddAlways(q, w, jobId) == Append(w, jobId)

WaitingAdd(q, w, jobId) ==
    IF q[jobId].state = "absent" THEN Append(w, jobId) ELSE w

\* ------------------------------------------------------------------ Init
Init ==
    /\ jobs = <<>>
    /\ queue = [j \in JobIds |-> NoEntry]
    /\ waiting = <<>>
    /\ pendingFailed = [j \in JobIds |-> 0]
    /\ calls = [c \in Slots |-> Idle]
    /\ ret = NoRet
    /\ now = 0
    /\ tokens = <<>>
    /\ stored = {}
    /\ blacklist = [t \in TokenIds |-> 0]
    /\ authCalls = [c \in AuthSlots |-> AuthIdle]
    /\ authRet = NoAuthRet
    /\ loggedOut = [refresh |-> {}, access |-> {}]
    /\ project = [exists |-> TRUE, version |-> 0]
    /\ cache = NoCache
    /\ projCalls = [c \in ProjSlots |-> ProjIdle]
    /\ projRet = NoProjRet
    /\ settled = NoneSettled

\* the calls are interchangeable: a new call takes the lowest free slot
FreeSlot(c) == calls[c].op = "idle" /\ \A d \in Slots : d < c => calls[d].op # "idle"

\* records that create calls in progress are about to insert
Inserting == Cardinality({c \in Slots : calls[c].op = "create" /\ calls[c].pc = "create"})

\* ---------------------------------------------------------- JobService.create
\* lines 11-13: the idempotency lookup hits
CreateDuplicate(c, userId, key, priority) ==
    /\ FreeSlot(c)
    /\ Truthy(key)
    /\ KeyMatches(userId, key) # {}
    /\ ret' = [op |-> "create", code |-> "ok",
               jobId |-> jobs[FindByKey(userId, key)].jobId, duplicate |-> TRUE]
    /\ UNCHANGED <<jobs, queue, waiting, pendingFailed, calls>>
    /\ UNCHANGED authVars
    /\ UNCHANGED projVars

\* lines 11-13: the idempotency lookup misses
CreateMiss(c, userId, key, priority, cap) ==
    /\ FreeSlot(c)
    /\ Truthy(key)
    /\ KeyMatches(userId, key) = {}
    /\ Len(jobs) + Inserting < cap
    /\ calls' = [calls EXCEPT ![c] = [Idle EXCEPT !.op = "create", !.pc = "create",
                     !.userId = userId, !.key = key, !.priority = priority]]
    /\ UNCHANGED <<jobs, queue, waiting, pendingFailed, ret>>
    /\ UNCHANGED authVars
    /\ UNCHANGED projVars

\* lines 16-25: Job.create after a miss
CreateInsert(c) ==
    /\ calls[c].op = "create"
    /\ calls[c].pc = "create"
    /\ LET id == Len(jobs) + 1 IN
        /\ jobs' = Append(jobs, NewJob(id, calls[c].userId, calls[c].key, calls[c].priority))
        /\ calls' = [calls EXCEPT ![c].pc = "addJob", ![c].jobId = id]
    /\ UNCHANGED <<queue, waiting, pendingFailed, ret>>
    /\ UNCHANGED authVars
    /\ UNCHANGED projVars

\* lines 11, 16-25: no (truthy) key, Job.create is the first await
CreateInsertNoKey(c, userId, key, priority, cap) ==
    /\ FreeSlot(c)
    /\ ~Truthy(key)
    /\ Len(jobs) + Inserting < cap
    /\ LET id == Len(jobs) + 1 IN
        /\ jobs' = Append(jobs, NewJob(id, userId, key, priority))
        /\ calls' = [calls EXCEPT ![c] = [Idle EXCEPT !.op = "create", !.pc = "addJob",
                         !.jobId = id, !.userId = userId, !.key = key,
                         !.priority = priority]]
    /\ UNCHANGED <<queue, waiting, pendingFailed, ret>>
    /\ UNCHANGED authVars
    /\ UNCHANGED projVars

\* lines 27-29: addJob, then return { job, duplicate: false }
CreateAddJob(c) ==
    /\ calls[c].op = "create"
    /\ calls[c].pc = "addJob"
    /\ LET id == calls[c].jobId IN
        /\ queue' = QueueAdd(queue, id, QueuePriority(calls[c].priority))
        /\ waiting' = WaitingAdd(queue, waiting, id)
        /\ calls' = Observe([calls EXCEPT ![c] = Idle], id, "enqueue", c)
        /\ ret' = [op |-> "create", code |-> "ok", jobId |-> id, duplicate |-> FALSE]
    /\ UNCHANGED <<jobs, pendingFailed>>
    /\ UNCHANGED authVars
    /\ UNCHANGED projVars

\* line 27: addJob rejects (the queue does not take the job); create has no
\* catch, the error is the outcome of the call, and the record of lines 16-25 stays
CreateAddJobFails(c) ==
    /\ calls[c].op = "create"
    /\ calls[c].pc = "addJob"
    /\ calls' = [calls EXCEPT ![c] = Idle]
    /\ ret' = [op |-> "create", code |-> "QueueUnavailable", jobId |-> calls[c].jobId,
               duplicate |-> FALSE]
    /\ UNCHANGED <<jobs, queue, waiting, pendingFailed>>
    /\ UNCHANGED authVars
    /\ UNCHANGED projVars

\* ------------------------------------------------------------ POST /jobs
\* createJobSchema: type: z.enum([...])
JobTypes == {"CODE_EXECUTION", "FILE_PROCESSING", "DATA_ANALYSIS", "EXPORT"}

\* the range of the priority is not checked
ValidBodyAnyPriority(type, priority) == type \in JobTypes

\* createJobSchema.parse succeeds: the type is one of the enum and the priority,
\* when there is one, is a number of min(1).max(10)
ValidBody(type, priority) ==
    /\ type \in JobTypes
    /\ Given(priority) => (MinPriority <= Value(priority) /\ Value(priority) <= MaxPriority)

\* the fields of the ZodError
InvalidFields(type, priority) ==
    {f \in {"type", "priority"} :
        \/ f = "type" /\ type \notin JobTypes
        \/ f = "priority" /\ Given(priority)
              /\ ~(MinPriority <= Value(priority) /\ Value(priority) <= MaxPriority)}

\* priority: z.number().min(1).max(10).default(5)
ParsedPriority(priority) == IF Given(priority) THEN Value(priority) ELSE SchemaPriority

\* validateBody lines 9-16: schema.parse throws, the answer is 400 'Validation
\* failed' and next() is not called
PostInvalid(c, userId, type, priority) ==
    /\ FreeSlot(c)
    /\ ~ValidBody(type, priority)
    /\ ret' = [op |-> "create", code |-> "ValidationError", jobId |-> 0,
               duplicate |-> FALSE, fields |-> InvalidFields(type, priority)]
    /\ UNCHANGED <<jobs, queue, waiting, pendingFailed, calls>>
    /\ UNCHANGED authVars
    /\ UNCHANGED projVars

\* validateBody lines 7-8 and the handler: req.body is the parsed body, create()
\* is called with it (here without an idempotency key)
PostValid(c, userId, type, priority, cap) ==
    /\ ValidBody(type, priority)
    /\ CreateInsertNoKey(c, userId, NoKey, ParsedPriority(priority), cap)
    /\ UNCHANGED authVars
    /\ UNCHANGED projVars

\* ---------------------------------------------------------- JobService.cancel
\* refuses completed jobs only
CancelAllowedUnlessCompleted(status) == status # COMPLETED

\* line 60
CancelAllowed(status) == status = PENDING

\* the fields of the document read that cancel uses after the read
\* and what happened at the queue: whether remove() has removed an entry that
\* waited for its first attempt, the create() and retry() calls that were in
\* progress at that removal, and whether getJob or remove has failed
CancelSnap(doc) ==
    [jobId |-> doc.jobId, status |-> doc.status, error |-> doc.error,
     fresh |-> FALSE, inflight |-> {}, queueError |-> FALSE]

\* lines 58-59: no record of that id for that user
CancelNotFound(c, jobId, userId) ==
    /\ FreeSlot(c)
    /\ FindJob(jobId, userId) = {}
    /\ ret' = [op |-> "cancel", code |-> "NotFound", jobId |-> jobId, duplicate |-> FALSE]
    /\ UNCHANGED <<jobs, queue, waiting, pendingFailed, calls>>
    /\ UNCHANGED authVars
    /\ UNCHANGED projVars

\* line 60: 'Can only cancel pending jobs'
CancelInvalid(c, jobId, userId) ==
    /\ FreeSlot(c)
    /\ FindJob(jobId, userId) # {}
    /\ ~CancelAllowed(jobs[jobId].status)
    /\ ret' = [op |-> "cancel", code |-> "InvalidState", jobId |-> jobId,
               duplicate |-> FALSE]
    /\ UNCHANGED <<jobs, queue, waiting, pendingFailed, calls>>
    /\ UNCHANGED authVars
    /\ UNCHANGED projVars

\* lines 58-60: the record is read and passes the check
CancelRead(c, jobId, userId) ==
    /\ FreeSlot(c)
    /\ FindJob(jobId, userId) # {}
    /\ CancelAllowed(jobs[jobId].status)
    /\ calls' = [calls EXCEPT ![c] = [Idle EXCEPT !.op = "cancel", !.pc = "getJob",
                     !.jobId = jobId, !.userId = userId,
                     !.snap = CancelSnap(jobs[jobId])]]
    /\ UNCHANGED <<jobs, queue, waiting, pendingFailed, ret>>
    /\ UNCHANGED authVars
    /\ UNCHANGED projVars

\* lines 64-65: jobQueue.getJob(jobId); bullJob is truthy at pc "remove"
CancelGetJob(c) ==
    /\ calls[c].op = "cancel"
    /\ calls[c].pc = "getJob"
    /\ LET found == queue[calls[c].jobId].state # "absent" IN
        calls' = [calls EXCEPT ![c].pc = IF found THEN "remove" ELSE "save"]
    /\ UNCHANGED <<jobs, queue, waiting, pendingFailed, ret>>
    /\ UNCHANGED authVars
    /\ UNCHANGED projVars

\* removes nothing
RemovableNever(entry) == FALSE

\* bullJob.remove(): removes the job unless a worker holds it (or it is gone);
\* then it throws
Removable(entry) == entry.state \notin {"absent", "active"}

\* the retry() calls in progress on job id
RetriesInFlight(id) == {d \in Slots : calls[d].op = "retry" /\ calls[d].jobId = id}

\* an entry that waits for its first attempt
Fresh(entry) == entry.state = "waiting" /\ entry.attemptsMade = 0

\* the calls in progress on job id that end with an addJob
AddersInFlight(id) ==
    {d \in Slots : calls[d].op \in {"create", "retry"} /\ calls[d].jobId = id}

\* lines 65-70: bullJob.remove(), its error caught and logged
CancelRemove(c) ==
    /\ calls[c].op = "cancel"
    /\ calls[c].pc = "remove"
    /\ LET id == calls[c].jobId IN
        IF Removable(queue[id])
        THEN /\ queue' = [queue EXCEPT ![id] = NoEntry]
             /\ waiting' = Remove(waiting, id)
             /\ calls' = [calls EXCEPT
                    ![c].pc = "save",
                    ![c].snap.fresh = Fresh(queue[id]),
                    ![c].snap.inflight = IF Fresh(queue[id]) THEN AddersInFlight(id) ELSE {}]
        ELSE /\ UNCHANGED <<queue, waiting>>
             /\ calls' = [calls EXCEPT ![c].pc = "save"]
    /\ UNCHANGED <<jobs, pendingFailed, ret>>
    /\ UNCHANGED authVars
    /\ UNCHANGED projVars

\* the error of the queue reaches the caller
QueueErrorPropagates == FALSE

\* lines 63, 68-70: try / catch around getJob and remove, the error is logged
QueueErrorCaught == TRUE

\* lines 64-70: Redis does not answer getJob or remove
CancelQueueError(c) ==
    /\ calls[c].op = "cancel"
    /\ calls[c].pc \in {"getJob", "remove"}
    /\ IF QueueErrorCaught
         THEN /\ calls' = [calls EXCEPT ![c].pc = "save", ![c].snap.queueError = TRUE]
              /\ UNCHANGED ret
         ELSE /\ calls' = [calls EXCEPT ![c] = Idle]
              /\ ret' = [op |-> "cancel", code |-> "QueueUnavailable",
                         jobId |-> calls[c].jobId, duplicate |-> FALSE]
    /\ UNCHANGED <<jobs, queue, waiting, pendingFailed>>
    /\ UNCHANGED authVars
    /\ UNCHANGED projVars

\* a save that writes the progress fields as well
CancelUpdateClearsProgress(doc, snap) ==
    [doc EXCEPT !.status = FAILED, !.error = CancelledByUser, !.completedAt = Set,
                !.attempts = 0, !.result = Null, !.startedAt = Null]

\* lines 73-76: job.save() writes the paths whose value differs from the one read
CancelUpdate(doc, snap) ==
    [doc EXCEPT !.status = FAILED,
                !.error = IF snap.error # CancelledByUser THEN CancelledByUser ELSE @,
                !.completedAt = Set]

\* lines 73-78; the outcome tells what happened at the queue: a fresh entry
\* counts as removed when no addJob has ended a call during the cancel()
CancelSave(c) ==
    /\ calls[c].op = "cancel"
    /\ calls[c].pc = "save"
    /\ LET id == calls[c].jobId IN
        /\ jobs' = [jobs EXCEPT ![id] = CancelUpdate(@, calls[c].snap)]
        /\ ret' = [op |-> "cancel", code |-> "ok", jobId |-> id, duplicate |-> FALSE,
                   fresh |-> calls[c].snap.fresh /\ "enqueue" \notin calls[c].seen,
                   inflight |-> calls[c].snap.inflight,
                   queueError |-> calls[c].snap.queueError]
    /\ calls' = [calls EXCEPT ![c] = Idle]
    /\ UNCHANGED <<queue, waiting, pendingFailed>>
    /\ UNCHANGED authVars
    /\ UNCHANGED projVars

\* ----------------------------------------------------------- JobService.retry
\* refuses pending jobs only
RetryAllowedUnlessPending(status) == status # PENDING

\* line 94
RetryAllowed(status) == status = FAILED

\* the fields of the document read that retry uses after the read
RetrySnap(doc) == [jobId |-> doc.jobId, status |-> doc.status,
                   attempts |-> doc.attempts, priority |-> doc.priority]

\* lines 92-93
RetryNotFound(c, jobId, userId) ==
    /\ FreeSlot(c)
    /\ FindJob(jobId, userId) = {}
    /\ ret' = [op |-> "retry", code |-> "NotFound", jobId |-> jobId, duplicate |-> FALSE]
    /\ UNCHANGED <<jobs, queue, waiting, pendingFailed, calls>>
    /\ UNCHANGED authVars
    /\ UNCHANGED projVars

\* line 94: 'Can only retry failed jobs'
RetryInvalid(c, jobId, userId) ==
    /\ FreeSlot(c)
    /\ FindJob(jobId, userId) # {}
    /\ ~RetryAllowed(jobs[jobId].status)
    /\ ret' = [op |-> "retry", code |-> "InvalidState", jobId |-> jobId,
               duplicate |-> FALSE]
    /\ UNCHANGED <<jobs, queue, waiting, pendingFailed, calls>>
    /\ UNCHANGED authVars
    /\ UNCHANGED projVars

\* lines 92-94: the record is read and passes the check
RetryRead(c, jobId, userId) ==
    /\ FreeSlot(c)
    /\ FindJob(jobId, userId) # {}
    /\ RetryAllowed(jobs[jobId].status)
    /\ calls' = [calls EXCEPT ![c] = [Idle EXCEPT !.op = "retry", !.pc = "save",
                     !.jobId = jobId, !.userId = userId,
                     !.snap = RetrySnap(jobs[jobId])]]
    /\ UNCHANGED <<jobs, queue, waiting, pendingFailed, ret>>
    /\ UNCHANGED authVars
    /\ UNCHANGED projVars

\* attempts is not reset
RetryUpdateKeepsAttempts(doc, snap) ==
    [doc EXCEPT !.status = PENDING, !.error = Null, !.result = Null,
                !.startedAt = Null, !.completedAt = Null]

\* lines 96-102: job.save() writes the paths whose value differs from the one
\* read: undefined differs from every stored value, 0 only from attempts # 0
RetryUpdate(doc, snap) ==
    [doc EXCEPT !.status = PENDING, !.error = Null, !.result = Null,
                !.attempts = IF snap.attempts # 0 THEN 0 ELSE @,
                !.startedAt = Null, !.completedAt = Null]

\* lines 96-102
RetrySave(c) ==
    /\ calls[c].op = "retry"
    /\ calls[c].pc = "save"
    /\ jobs' = [jobs EXCEPT ![calls[c].jobId] = RetryUpdate(@, calls[c].snap)]
    /\ calls' = [calls EXCEPT ![c].pc = "addJob"]
    /\ UNCHANGED <<queue, waiting, pendingFailed, ret>>
    /\ UNCHANGED authVars
    /\ UNCHANGED projVars

\* lines 104-106: addJob with the priority read, then return job
RetryAddJob(c) ==
    /\ calls[c].op = "retry"
    /\ calls[c].pc = "addJob"
    /\ LET id == calls[c].snap.jobId IN
        /\ queue' = QueueAdd(queue, id, QueuePriority(calls[c].snap.priority))
        /\ waiting' = WaitingAdd(queue, waiting, id)
        /\ calls' = Observe([calls EXCEPT ![c] = Idle], id, "enqueue", c)
        /\ ret' = [op |-> "retry", code |-> "ok", jobId |-> id, duplicate |-> FALSE]
    /\ UNCHANGED <<jobs, pendingFailed>>
    /\ UNCHANGED authVars
    /\ UNCHANGED projVars

\* --------------------------------------------------------- JobService.getById
\* lines 33-34: no record of that id for that user
GetNotFound(c, jobId, userId) ==
    /\ FreeSlot(c)
    /\ FindJob(jobId, userId) = {}
    /\ ret' = [op |-> "get", code |-> "NotFound", jobId |-> jobId, duplicate |-> FALSE]
    /\ UNCHANGED <<jobs, queue, waiting, pendingFailed, calls>>
    /\ UNCHANGED authVars
    /\ UNCHANGED projVars

\* lines 33-35: the record is returned
GetFound(c, jobId, userId) ==
    /\ FreeSlot(c)
    /\ FindJob(jobId, userId) # {}
    /\ ret' = [op |-> "get", code |-> "ok", jobId |-> jobId, duplicate |-> FALSE,
               userId |-> userId, job |-> jobs[jobId]]
    /\ UNCHANGED <<jobs, queue, waiting, pendingFailed, calls>>
    /\ UNCHANGED authVars
    /\ UNCHANGED projVars

\* ----------------------------------------------------- JobService.getAllForUser
\* x || d for a number x: undefined and 0 are falsy
OrDefault(x, d) == IF Given(x) /\ Value(x) # 0 THEN Value(x) ELSE d

\* line 43: Math.min(options.limit || 20, 100)
ListLimit(limit) == Min({OrDefault(limit, DefaultLimit), MaxLimit})

\* line 44: options.offset || 0
ListOffset(offset) == OrDefault(offset, 0)

\* the query forgets the owner
ListQueryAnyUser(js, userId, status) ==
    {i \in 1..Len(js) : Truthy(status) => js[i].status = status}

\* lines 39-40: { userId } and, when a status is asked for, { status }
ListQuery(js, userId, status) ==
    {i \in 1..Len(js) : /\ js[i].userId = userId
                        /\ (Truthy(status) => js[i].status = status)}

\* sort({ createdAt: -1 }): createdAt is the time of insertion, the records of S
\* come latest first
Descending(S) ==
    [k \in 1..Cardinality(S) |->
        CHOOSE x \in S : Cardinality({y \in S : y > x}) = k - 1]

\* limit(n) of a query: the driver sends a negative n as the limit -n of a
\* single batch
FindLimit(n) == IF n < 0 THEN 0 - n ELSE n

\* line 47: find(query).sort({ createdAt: -1 }).skip(offset).limit(limit)
ListPage(js, userId, status, limit, offset) ==
    LET all == Descending(ListQuery(js, userId, status))
        last == Min({Len(all), ListOffset(offset) + FindLimit(ListLimit(limit))})
    IN SubSeq(all, ListOffset(offset) + 1, last)

\* line 48: countDocuments(query)
ListTotal(js, userId, status) == Cardinality(ListQuery(js, userId, status))

NoList == [jobId |-> 0, status |-> NoStatus, limit |-> Omitted, offset |-> Omitted,
           found |-> FALSE, page |-> <<>>, counted |-> FALSE, total |-> 0]

\* lines 51-54 with the results of the two queries
ListResult(userId, snap) ==
    [op |-> "list", code |-> "ok", jobId |-> 0, duplicate |-> FALSE,
     userId |-> userId, status |-> snap.status, limitArg |-> snap.limit,
     page |-> snap.page, total |-> snap.total,
     limit |-> ListLimit(snap.limit), offset |-> ListOffset(snap.offset),
     hasMore |-> ListOffset(snap.offset) + Len(snap.page) < snap.total]

\* lines 39-46: the two queries of Promise.all are issued
ListStart(c, userId, status, limit, offset) ==
    /\ FreeSlot(c)
    /\ calls' = [calls EXCEPT ![c] = [Idle EXCEPT !.op = "list", !.pc = "queries",
                     !.userId = userId,
                     !.snap = [NoList EXCEPT !.status = status, !.limit = limit,
                                             !.offset = offset]]]
    /\ UNCHANGED <<jobs, queue, waiting, pendingFailed, ret>>
    /\ UNCHANGED authVars
    /\ UNCHANGED projVars

\* the call returns with the query that answers last
ListStep(c, snap) ==
    IF snap.found /\ snap.counted
    THEN /\ calls' = [calls EXCEPT ![c] = Idle]
         /\ ret' = ListResult(calls[c].userId, snap)
    ELSE /\ calls' = [calls EXCEPT ![c].snap = snap]
         /\ UNCHANGED ret

\* line 47: the find is answered
ListFind(c) ==
    /\ calls[c].op = "list"
    /\ ~calls[c].snap.found
    /\ LET s == calls[c].snap IN
        ListStep(c, [s EXCEPT !.found = TRUE,
                       !.page = ListPage(jobs, calls[c].userId, s.status, s.limit, s.offset)])
    /\ UNCHANGED <<jobs, queue, waiting, pendingFailed>>
    /\ UNCHANGED authVars
    /\ UNCHANGED projVars

\* line 48: the count is answered
ListCount(c) ==
    /\ calls[c].op = "list"
    /\ ~calls[c].snap.counted
    /\ LET s == calls[c].snap IN
        ListStep(c, [s EXCEPT !.counted = TRUE,
                       !.total = ListTotal(jobs, calls[c].userId, s.status)])
    /\ UNCHANGED <<jobs, queue, waiting, pendingFailed>>
    /\ UNCHANGED authVars
    /\ UNCHANGED projVars

\* ---------------------------------------------------------- JobService.getStats
\* the aggregate forgets the owner
StatsMatchAnyUser(js, userId) == {i \in 1..Len(js) : TRUE}

\* line 83: { $match: { userId } }
StatsMatch(js, userId) == {i \in 1..Len(js) : js[i].userId = userId}

\* line 83: { $group: { _id: '$status', count: { $sum: 1 } } } and line 87: one
\* key for each status that has a record
UserStats(js, userId) ==
    LET mine == StatsMatch(js, userId) IN
    [s \in {js[i].status : i \in mine} |->
        Cardinality({i \in mine : js[i].status = s})]

\* getQueueStats lines 33-38: the counts it reads, in the order it asks for them
QueueCounts == <<"waiting", "active", "completed", "failed">>

\* getWaitingCount(), getActiveCount(), getCompletedCount(), getFailedCount()
QueueCount(q, state) == Cardinality({j \in JobIds : q[j].state = state})

NoStats == [jobId |-> 0, aggregated |-> FALSE, user |-> <<>>, counts |-> <<>>]

\* line 88 and getQueueStats line 39
StatsResult(userId, snap) ==
    [op |-> "stats", code |-> "ok", jobId |-> 0, duplicate |-> FALSE,
     userId |-> userId, user |-> snap.user,
     queue |-> [k \in 1..Len(QueueCounts) |-> snap.counts[k]]]

\* lines 82-85: the aggregate and the four counts are asked for
StatsStart(c, userId) ==
    /\ FreeSlot(c)
    /\ calls' = [calls EXCEPT ![c] = [Idle EXCEPT !.op = "stats", !.pc = "queries",
                     !.userId = userId, !.snap = NoStats]]
    /\ UNCHANGED <<jobs, queue, waiting, pendingFailed, ret>>
    /\ UNCHANGED authVars
    /\ UNCHANGED projVars

\* the call returns with the answer that comes last
StatsStep(c, snap) ==
    IF snap.aggregated /\ Len(snap.counts) = Len(QueueCounts)
    THEN /\ calls' = [calls EXCEPT ![c] = Idle]
         /\ ret' = StatsResult(calls[c].userId, snap)
    ELSE /\ calls' = [calls EXCEPT ![c].snap = snap]
         /\ UNCHANGED ret

\* line 83: the aggregate is answered
StatsAggregate(c) ==
    /\ calls[c].op = "stats"
    /\ ~calls[c].snap.aggregated
    /\ StatsStep(c, [calls[c].snap EXCEPT !.aggregated = TRUE,
                        !.user = UserStats(jobs, calls[c].userId)])
    /\ UNCHANGED <<jobs, queue, waiting, pendingFailed>>
    /\ UNCHANGED authVars
    /\ UNCHANGED projVars

\* getQueueStats lines 33-38: the next count is answered
StatsQueueCount(c) ==
    /\ calls[c].op = "stats"
    /\ Len(calls[c].snap.counts) < Len(QueueCounts)
    /\ LET s == calls[c].snap
           state == QueueCounts[Len(s.counts) + 1]
       IN StatsStep(c, [s EXCEPT !.counts = Append(@, QueueCount(queue, state))])
    /\ UNCHANGED <<jobs, queue, waiting, pendingFailed>>
    /\ UNCHANGED authVars
    /\ UNCHANGED projVars

\* ------------------------------------------------------------ the worker
ActiveCount == Cardinality({j \in JobIds : queue[j].state = "active"})

\* BullMQ serves the waiting job with the lowest priority number first and,
\* among equal priorities, the one added first
NextWaiting ==
    LET best == Min({queue[waiting[i]].priority : i \in 1..Len(waiting)})
        first == Min({i \in 1..Len(waiting) : queue[waiting[i]].priority = best})
    IN waiting[first]

\* processJob line 71: attempts: job.attemptsMade + 1
AttemptNumber(attemptsMade) == attemptsMade + 1

\* one retry too many
RetriesLeftOffByOne(attemptsMade) == attemptsMade <= QueueAttempts

\* defaultJobOptions.attempts: a failed job is retried while it has attempts left
RetriesLeft(attemptsMade) == attemptsMade < QueueAttempts

\* a backoff of the same delay after every failure (type 'fixed')
BackoffDelayFixed(attemptsMade) == BackoffBase

\* backoff: { type: 'exponential', delay: 1000 }: BullMQ delays the retry after
\* the n-th failure by delay * 2^(n - 1)
BackoffDelay(attemptsMade) == BackoffBase * 2 ^ (attemptsMade - 1)

\* a worker with a free slot (concurrency: 5) takes the next waiting job
Claim(j) ==
    /\ waiting # <<>>
    /\ j = NextWaiting
    /\ ActiveCount < Concurrency
    /\ queue' = [queue EXCEPT ![j].state = "active", ![j].pc = "start"]
    /\ waiting' = Remove(waiting, j)
    /\ calls' = Observe(calls, j, "worker", 0)
    /\ UNCHANGED <<jobs, pendingFailed, ret>>
    /\ UNCHANGED authVars
    /\ UNCHANGED projVars

\* processJob lines 66-73
WorkerStart(j) ==
    /\ queue[j].state = "active"
    /\ queue[j].pc = "start"
    /\ jobs' = [jobs EXCEPT ![j].status = PROCESSING, ![j].startedAt = Set,
                            ![j].attempts = AttemptNumber(queue[j].attemptsMade)]
    /\ queue' = [queue EXCEPT ![j].pc = "work"]
    /\ calls' = Observe(calls, j, "worker", 0)
    /\ UNCHANGED <<waiting, pendingFailed, ret>>
    /\ UNCHANGED authVars
    /\ UNCHANGED projVars

\* processJob lines 75-80: simulateWork returns, the record is completed
WorkerComplete(j) ==
    /\ queue[j].state = "active"
    /\ queue[j].pc = "work"
    /\ jobs' = [jobs EXCEPT ![j].status = COMPLETED, ![j].result = WorkResult,
                            ![j].completedAt = Set]
    /\ queue' = [queue EXCEPT ![j].pc = "return"]
    /\ calls' = Observe(calls, j, "worker", 0)
    /\ UNCHANGED <<waiting, pendingFailed, ret>>
    /\ UNCHANGED authVars
    /\ UNCHANGED projVars

\* processJob line 83: the processor returns, BullMQ moves the job to completed
\* (removeOnComplete keeps the last 100, more than MaxJobs)
WorkerFinish(j) ==
    /\ queue[j].state = "active"
    /\ queue[j].pc = "return"
    /\ queue' = [queue EXCEPT ![j].state = "completed", ![j].pc = "-"]
    /\ calls' = Observe(calls, j, "worker", 0)
    /\ UNCHANGED <<jobs, waiting, pendingFailed, ret>>
    /\ UNCHANGED authVars
    /\ UNCHANGED projVars

\* processJob lines 85-90: simulateWork throws and processJob rethrows; BullMQ
\* counts the attempt, delays the job for a retry or moves it to failed
\* (removeOnFail keeps the last 50, more than MaxJobs), and emits 'failed'
WorkerFail(j) ==
    /\ queue[j].state = "active"
    /\ queue[j].pc = "work"
    /\ pendingFailed[j] < MaxPendingFailed
    /\ LET made == queue[j].attemptsMade + 1 IN
        queue' = [queue EXCEPT ![j].attemptsMade = made, ![j].pc = "-",
                     ![j].state = IF RetriesLeft(made) THEN "delayed" ELSE "failed",
                     ![j].readyAt = IF RetriesLeft(made) THEN now + BackoffDelay(made)
                                                         ELSE @]
    /\ pendingFailed' = [pendingFailed EXCEPT ![j] = @ + 1]
    /\ calls' = Observe(calls, j, "worker", 0)
    /\ UNCHANGED <<jobs, waiting, ret>>
    /\ UNCHANGED authVars
    /\ UNCHANGED projVars

\* worker.on('failed') lines 102-115: the update of one emitted event is applied
FailedListener(j) ==
    /\ pendingFailed[j] > 0
    /\ jobs' = [jobs EXCEPT ![j].status = FAILED, ![j].error = SimulatedFailure,
                            ![j].completedAt = Set]
    /\ pendingFailed' = [pendingFailed EXCEPT ![j] = @ - 1]
    /\ calls' = Observe(calls, j, "worker", 0)
    /\ UNCHANGED <<queue, waiting, ret>>
    /\ UNCHANGED authVars
    /\ UNCHANGED projVars

\* the backoff delay of a delayed job has elapsed: it waits again (the time is
\* left open)
Promote(j) ==
    /\ queue[j].state = "delayed"
    /\ queue' = [queue EXCEPT ![j].state = "waiting"]
    /\ waiting' = Append(waiting, j)
    /\ calls' = Observe(calls, j, "worker", 0)
    /\ UNCHANGED <<jobs, pendingFailed, ret>>
    /\ UNCHANGED authVars
    /\ UNCHANGED projVars

\* ------------------------------------------- AuthService and authenticate
\* Time is counted in ticks.  A token is the position of its pair in tokens;
\* jwt.verify of an issued token fails exactly when the token has expired
\* (tokens that were never issued are not modelled: a call carries an issued
\* token).

\* expiresIn of the access token ('15m') and of the refresh token ('7d'),
\* in ticks
AccessLife == 2
RefreshLife == 3

Issued == 1..Len(tokens)

AuthFreeSlot(c) == authCalls[c].op = "idle"

AuthDone(c, r) ==
    /\ authCalls' = [authCalls EXCEPT ![c] = AuthIdle]
    /\ authRet' = r

Unauthorized(op, t) == [op |-> op, code |-> "Unauthorized", token |-> t]

\* the token pairs that the calls in progress are going to issue when the
\* refreshes of R are added: one for a login, one for a refresh that has
\* deleted its row, one for every stored row that refreshes are about to delete
Issuing(R) ==
    Cardinality({c \in AuthSlots : authCalls[c].op = "login"})
    + Cardinality({c \in AuthSlots :
                      authCalls[c].op = "refresh" /\ authCalls[c].pc = "generate"})
    + Cardinality(stored \cap
          (R \cup {authCalls[c].refresh : c \in
                      {d \in AuthSlots : /\ authCalls[d].op = "refresh"
                                          /\ authCalls[d].pc = "delete"}}))

\* generateTokens: sign both tokens and store the refresh token; from is the
\* refresh token that was exchanged for the pair (0 at a login)
GenerateTokens(from) ==
    /\ tokens' = Append(tokens, [accessExp  |-> now + AccessLife,
                                 refreshExp |-> now + RefreshLife,
                                 from       |-> from])
    /\ stored' = stored \cup {Len(tokens) + 1}

\* login(): the credentials are right, the tokens are to be generated
LoginStart(c) ==
    /\ AuthFreeSlot(c)
    /\ Len(tokens) + Issuing({}) < MaxTokens
    /\ authCalls' = [authCalls EXCEPT ![c] =
            [op |-> "login", pc |-> "generate", refresh |-> 0, access |-> 0, ttl |-> 0]]
    /\ UNCHANGED <<now, tokens, stored, blacklist, authRet, loggedOut>>
    /\ UNCHANGED jobVars
    /\ UNCHANGED projVars

LoginGenerate(c) ==
    /\ authCalls[c].op = "login"
    /\ GenerateTokens(0)
    /\ AuthDone(c, [op |-> "login", code |-> "ok", token |-> Len(tokens) + 1])
    /\ UNCHANGED <<now, blacklist, loggedOut>>
    /\ UNCHANGED jobVars
    /\ UNCHANGED projVars

\* refreshToken(r): jwt.verify throws on an expired token, findUnique finds
\* no row.  The expiresAt of a row is the expiry of its token, so that the
\* expiresAt branch is not taken once jwt.verify has passed.
RefreshRejected(c, r) ==
    /\ AuthFreeSlot(c)
    /\ r \in Issued
    /\ now >= tokens[r].refreshExp \/ r \notin stored
    /\ AuthDone(c, Unauthorized("refresh", r))
    /\ UNCHANGED <<now, tokens, stored, blacklist, loggedOut>>
    /\ UNCHANGED jobVars
    /\ UNCHANGED projVars

RefreshFound(c, r) ==
    /\ AuthFreeSlot(c)
    /\ r \in Issued
    /\ now < tokens[r].refreshExp
    /\ r \in stored
    /\ Len(tokens) + Issuing({r}) <= MaxTokens
    /\ authCalls' = [authCalls EXCEPT ![c] =
            [op |-> "refresh", pc |-> "delete", refresh |-> r, access |-> 0, ttl |-> 0]]
    /\ UNCHANGED <<now, tokens, stored, blacklist, authRet, loggedOut>>
    /\ UNCHANGED jobVars
    /\ UNCHANGED projVars

\* a delete that passes when the row is gone (what deleteMany does)
DeleteTolerates(r) == FALSE

\* prisma.refreshToken.delete rejects when the row is gone
DeleteRejects(r) == r \notin stored

RefreshDelete(c) ==
    /\ authCalls[c].op = "refresh"
    /\ authCalls[c].pc = "delete"
    /\ IF ~DeleteRejects(authCalls[c].refresh)
         THEN /\ stored' = stored \ {authCalls[c].refresh}
              /\ authCalls' = [authCalls EXCEPT ![c].pc = "generate"]
              /\ UNCHANGED authRet
         ELSE /\ AuthDone(c, [op |-> "refresh", code |-> "RecordNotFound",
                              token |-> authCalls[c].refresh])
              /\ UNCHANGED stored
    /\ UNCHANGED <<now, tokens, blacklist, loggedOut>>
    /\ UNCHANGED jobVars
    /\ UNCHANGED projVars

RefreshGenerate(c) ==
    /\ authCalls[c].op = "refresh"
    /\ authCalls[c].pc = "generate"
    /\ GenerateTokens(authCalls[c].refresh)
    /\ AuthDone(c, [op |-> "refresh", code |-> "ok", token |-> Len(tokens) + 1])
    /\ UNCHANGED <<now, blacklist, loggedOut>>
    /\ UNCHANGED jobVars
    /\ UNCHANGED projVars

\* the lifetime of the blacklist key: what is left of the access token
BlacklistTtlShort(exp, t) == exp - t - 1

BlacklistTtl(exp, t) == exp - t

LogoutDone(c) ==
    /\ AuthDone(c, [op |-> "logout", code |-> "ok", token |-> authCalls[c].refresh])
    /\ loggedOut' = [refresh |-> loggedOut.refresh \cup {authCalls[c].refresh},
                     access  |-> loggedOut.access \cup {authCalls[c].access}]

\* logout(r, a): deleteMany, then the ttl is computed from the decoded token
LogoutStart(c, r, a) ==
    /\ AuthFreeSlot(c)
    /\ r \in Issued /\ a \in Issued
    /\ authCalls' = [authCalls EXCEPT ![c] =
            [op |-> "logout", pc |-> "deleteMany", refresh |-> r, access |-> a, ttl |-> 0]]
    /\ UNCHANGED <<now, tokens, stored, blacklist, authRet, loggedOut>>
    /\ UNCHANGED jobVars
    /\ UNCHANGED projVars

LogoutDeleteMany(c) ==
    /\ authCalls[c].op = "logout"
    /\ authCalls[c].pc = "deleteMany"
    /\ stored' = stored \ {authCalls[c].refresh}
    /\ LET ttl == BlacklistTtl(tokens[authCalls[c].access].accessExp, now)
       IN  IF ttl > 0
             THEN /\ authCalls' = [authCalls EXCEPT ![c].pc = "setex", ![c].ttl = ttl]
                  /\ UNCHANGED <<authRet, loggedOut>>
             ELSE LogoutDone(c)
    /\ UNCHANGED <<now, tokens, blacklist>>
    /\ UNCHANGED jobVars
    /\ UNCHANGED projVars

\* redis.setex: the key lives ttl ticks from the time Redis runs the command
LogoutSetex(c) ==
    /\ authCalls[c].op = "logout"
    /\ authCalls[c].pc = "setex"
    /\ blacklist' = [blacklist EXCEPT ![authCalls[c].access] = now + authCalls[c].ttl]
    /\ LogoutDone(c)
    /\ UNCHANGED <<now, tokens, stored>>
    /\ UNCHANGED jobVars
    /\ UNCHANGED projVars

Blacklisted(a) == now < blacklist[a]

\* authenticate: jwt.verify throws on an expired token
AuthInvalid(c, a) ==
    /\ AuthFreeSlot(c)
    /\ a \in Issued
    /\ now >= tokens[a].accessExp
    /\ AuthDone(c, Unauthorized("request", a))
    /\ UNCHANGED <<now, tokens, stored, blacklist, loggedOut>>
    /\ UNCHANGED jobVars
    /\ UNCHANGED projVars

AuthVerified(c, a) ==
    /\ AuthFreeSlot(c)
    /\ a \in Issued
    /\ now < tokens[a].accessExp
    /\ authCalls' = [authCalls EXCEPT ![c] =
            [op |-> "request", pc |-> "get", refresh |-> 0, access |-> a, ttl |-> 0]]
    /\ UNCHANGED <<now, tokens, stored, blacklist, authRet, loggedOut>>
    /\ UNCHANGED jobVars
    /\ UNCHANGED projVars

\* redis.get of the blacklist key
AuthGet(c) ==
    /\ authCalls[c].op = "request"
    /\ authCalls[c].pc = "get"
    /\ IF Blacklisted(authCalls[c].access)
         THEN AuthDone(c, [op |-> "request", code |-> "Invalidated",
                           token |-> authCalls[c].access])
         ELSE /\ authCalls' = [authCalls EXCEPT ![c].pc = "user"]
              /\ UNCHANGED authRet
    /\ UNCHANGED <<now, tokens, stored, blacklist, loggedOut>>
    /\ UNCHANGED jobVars
    /\ UNCHANGED projVars

\* the user of the token is found: next()
AuthUser(c) ==
    /\ authCalls[c].op = "request"
    /\ authCalls[c].pc = "user"
    /\ AuthDone(c, [op |-> "request", code |-> "ok", token |-> authCalls[c].access])
    /\ UNCHANGED <<now, tokens, stored, blacklist, loggedOut>>
    /\ UNCHANGED jobVars
    /\ UNCHANGED projVars

\* BullMQ promotes a delayed job when its time has come
PromoteDue(j) ==
    /\ now >= queue[j].readyAt
    /\ Promote(j)

Tick ==
    /\ now < MaxClock
    /\ now' = now + 1
    /\ UNCHANGED <<tokens, stored, blacklist, authCalls, authRet, loggedOut>>
    /\ UNCHANGED jobVars
    /\ UNCHANGED projVars

\* ------------------------------------------------------------ ProjectService
\* One project is followed.  Its content is told by its version, the number of
\* updates applied to the row.  A call remembers in floor what the update and
\* delete calls had applied that had returned when it started.

\* const CACHE_TTL = 300 seconds, one tick of the clock
CACHE_TTL == 1

\* the project as Prisma returns it, and as JSON.parse(JSON.stringify(project))
\* returns it: the dates have become strings
Row == "row"
Parsed == "parsed"

\* redis.get finds the key until it expires
Cached == cache.present /\ now < cache.exp

ProjFreeSlot(c) ==
    /\ projCalls[c].op = "idle"
    /\ \A d \in ProjSlots : d < c => projCalls[d].op # "idle"

ProjDone(c, r) ==
    /\ projCalls' = [projCalls EXCEPT ![c] = ProjIdle]
    /\ projRet' = r

\* getById lines 26-29: the key is found, the parsed value is returned
GetByIdCached(c) ==
    /\ ProjFreeSlot(c)
    /\ Cached
    /\ ProjDone(c, [op |-> "getById", code |-> "ok", version |-> cache.version,
                    form |-> Parsed, floor |-> settled])
    /\ UNCHANGED <<project, cache, settled>>
    /\ UNCHANGED jobVars
    /\ UNCHANGED authVars

\* getById line 26: the key is not found
GetByIdMiss(c) ==
    /\ ProjFreeSlot(c)
    /\ ~Cached
    /\ projCalls' = [projCalls EXCEPT ![c] =
            [op |-> "getById", pc |-> "findUnique", version |-> 0, floor |-> settled]]
    /\ UNCHANGED <<project, cache, projRet, settled>>
    /\ UNCHANGED jobVars
    /\ UNCHANGED authVars

\* getById lines 31-46: the row is read; 404 when there is none
GetByIdFind(c) ==
    /\ projCalls[c].op = "getById"
    /\ projCalls[c].pc = "findUnique"
    /\ IF project.exists
         THEN /\ projCalls' = [projCalls EXCEPT ![c].pc = "setex",
                                                ![c].version = project.version]
              /\ UNCHANGED projRet
         ELSE ProjDone(c, [op |-> "getById", code |-> "NotFound", version |-> 0,
                           form |-> "-", floor |-> projCalls[c].floor])
    /\ UNCHANGED <<project, cache, settled>>
    /\ UNCHANGED jobVars
    /\ UNCHANGED authVars

\* getById lines 48-50: the row that was read is cached and returned
GetByIdSetex(c) ==
    /\ projCalls[c].op = "getById"
    /\ projCalls[c].pc = "setex"
    /\ cache' = [present |-> TRUE, version |-> projCalls[c].version,
                 exp |-> now + CACHE_TTL]
    /\ ProjDone(c, [op |-> "getById", code |-> "ok", version |-> projCalls[c].version,
                    form |-> Row, floor |-> projCalls[c].floor])
    /\ UNCHANGED <<project, settled>>
    /\ UNCHANGED jobVars
    /\ UNCHANGED authVars

\* update lines 90-94: prisma.project.update writes the row, and rejects when
\* there is none
UpdateRow(c) ==
    /\ ProjFreeSlot(c)
    /\ project.version < MaxVersion
    /\ IF project.exists
         THEN /\ project' = [project EXCEPT !.version = @ + 1]
              /\ projCalls' = [projCalls EXCEPT ![c] =
                     [op |-> "update", pc |-> "del", version |-> project.version + 1,
                      floor |-> settled]]
              /\ UNCHANGED projRet
         ELSE /\ ProjDone(c, [op |-> "update", code |-> "RecordNotFound",
                              version |-> 0, form |-> "-", floor |-> settled])
              /\ UNCHANGED project
    /\ UNCHANGED <<cache, settled>>
    /\ UNCHANGED jobVars
    /\ UNCHANGED authVars

\* update lines 96-98: the key is deleted and the updated row is returned
UpdateDel(c) ==
    /\ projCalls[c].op = "update"
    /\ projCalls[c].pc = "del"
    /\ cache' = NoCache
    /\ settled' = [settled EXCEPT !.version =
                       IF projCalls[c].version > @ THEN projCalls[c].version ELSE @]
    /\ ProjDone(c, [op |-> "update", code |-> "ok", version |-> projCalls[c].version,
                    form |-> Row, floor |-> projCalls[c].floor])
    /\ UNCHANGED project
    /\ UNCHANGED jobVars
    /\ UNCHANGED authVars

\* delete line 102: prisma.project.delete removes the row, and rejects when
\* there is none
DeleteRow(c) ==
    /\ ProjFreeSlot(c)
    /\ IF project.exists
         THEN /\ project' = [project EXCEPT !.exists = FALSE]
              /\ projCalls' = [projCalls EXCEPT ![c] =
                     [op |-> "delete", pc |-> "del", version |-> 0, floor |-> settled]]
              /\ UNCHANGED projRet
         ELSE /\ ProjDone(c, [op |-> "delete", code |-> "RecordNotFound",
                              version |-> 0, form |-> "-", floor |-> settled])
              /\ UNCHANGED project
    /\ UNCHANGED <<cache, settled>>
    /\ UNCHANGED jobVars
    /\ UNCHANGED authVars

\* delete lines 103-105: the key is deleted
DeleteDel(c) ==
    /\ projCalls[c].op = "delete"
    /\ projCalls[c].pc = "del"
    /\ cache' = NoCache
    /\ settled' = [settled EXCEPT !.deleted = TRUE]
    /\ ProjDone(c, [op |-> "delete", code |-> "ok", version |-> 0, form |-> "-",
                    floor |-> projCalls[c].floor])
    /\ UNCHANGED project
    /\ UNCHANGED jobVars
    /\ UNCHANGED authVars

\* --------------------------------------------------------- specifications
\* create() calls without a key in slots S, of users U with priorities P, on at
\* most cap jobs
CreateNoKey(S, U, P, cap) ==
    \/ \E c \in S, u \in U, p \in P : CreateInsertNoKey(c, u, NoKey, p, cap)
    \/ \E c \in S : CreateAddJob(c)

\* create() calls with a key of K
CreateKeyed(S, U, K, P, cap) ==
    \/ \E c \in S, u \in U, k \in K, p \in P :
        \/ CreateDuplicate(c, u, k, p)
        \/ CreateMiss(c, u, k, p, cap)
    \/ \E c \in S : CreateInsert(c)

Cancel(S, J, U) ==
    \/ \E c \in S, j \in J, u \in U :
        \/ CancelNotFound(c, j, u)
        \/ CancelInvalid(c, j, u)
        \/ CancelRead(c, j, u)
    \/ \E c \in S : CancelGetJob(c) \/ CancelRemove(c) \/ CancelSave(c)

Retry(S, J, U) ==
    \/ \E c \in S, j \in J, u \in U :
        \/ RetryNotFound(c, j, u)
        \/ RetryInvalid(c, j, u)
        \/ RetryRead(c, j, u)
    \/ \E c \in S : RetrySave(c) \/ RetryAddJob(c)

Get(S, J, U) ==
    \E c \in S, j \in J, u \in U : GetNotFound(c, j, u) \/ GetFound(c, j, u)

\* getAllForUser() calls with a status of St, a limit of L and an offset of O
List(S, U, St, L, O) ==
    \/ \E c \in S, u \in U, st \in St, l \in L, o \in O : ListStart(c, u, st, l, o)
    \/ \E c \in S : ListFind(c) \/ ListCount(c)

Stats(S, U) ==
    \/ \E c \in S, u \in U : StatsStart(c, u)
    \/ \E c \in S : StatsAggregate(c) \/ StatsQueueCount(c)

\* POST /jobs requests with a type of T and a priority of P
Post(S, U, T, P, cap) ==
    \/ \E c \in S, u \in U, t \in T, p \in P :
        \/ PostInvalid(c, u, t, p)
        \/ PostValid(c, u, t, p, cap)
    \/ \E c \in S : CreateAddJob(c)

Worker ==
    \E j \in JobIds :
        \/ Claim(j)
        \/ WorkerStart(j)
        \/ WorkerComplete(j)
        \/ WorkerFinish(j)
        \/ WorkerFail(j)
        \/ FailedListener(j)
        \/ Promote(j)

\* Spec: the life of one job under concurrent calls of its owner and the worker
Next ==
    \/ CreateNoKey(Slots, {"u1"}, {NoPriority}, MaxJobsLife)
    \/ Cancel(Slots, 1..MaxJobsLife, {"u1"})
    \/ Retry(Slots, 1..MaxJobsLife, {"u1"})
    \/ Worker

Spec == Init /\ [][Next]_vars

\* SpecSubmit: concurrent create() calls of two users, with and without a key,
\* and the worker
NextSubmit ==
    \/ CreateNoKey(Slots, Users, Priorities, MaxJobsSubmit)
    \/ CreateKeyed(Slots, Users, Keys \ {NoKey}, Priorities, MaxJobsSubmit)
    \/ Worker

SpecSubmit == Init /\ [][NextSubmit]_vars

\* SpecPriority: create() calls one after the other with priorities 3, 8 and the
\* default, and a worker whose work succeeds
NextPriority ==
    \/ CreateNoKey({1}, {"u1"}, {NoPriority, 3, 8}, MaxJobs)
    \/ \E j \in JobIds :
        \/ Claim(j)
        \/ WorkerStart(j)
        \/ WorkerComplete(j)
        \/ WorkerFinish(j)

SpecPriority == Init /\ [][NextPriority]_vars

\* SpecOwners: the jobs of two users, each of them calling get, list, stats,
\* cancel and retry one call at a time on every job id, before a worker takes
\* the jobs (no step of the worker reads or writes the owner of a record)
NextOwners ==
    \/ CreateNoKey({1}, Users, {NoPriority}, MaxJobsOwners)
    \/ Get({1}, 1..MaxJobsOwners, Users)
    \/ List({1}, Users, {NoStatus}, {Omitted}, {Omitted})
    \/ Stats({1}, Users)
    \/ Cancel({1}, 1..MaxJobsOwners, Users)
    \/ Retry({1}, 1..MaxJobsOwners, Users)

SpecOwners == Init /\ [][NextOwners]_vars

\* SpecOutage: create() calls whose enqueue may fail, and the worker
NextOutage ==
    \/ CreateNoKey(Slots, {"u1"}, {NoPriority}, MaxJobsOutage)
    \/ \E c \in Slots : CreateAddJobFails(c)
    \/ Worker

SpecOutage == Init /\ [][NextOutage]_vars

\* the options of the getAllForUser() calls of SpecList
Statuses == {NoStatus, PENDING}
Limits == {Omitted, {0}, {1}, {0 - 2}, {500}}
Offsets == {Omitted, {1}}

\* SpecList: getAllForUser() calls of user u1, one at a time, on a store that
\* create() calls of two users fill and a worker whose work succeeds updates
NextList ==
    \/ CreateNoKey({1}, Users, {NoPriority}, MaxJobsList)
    \/ List({1}, {"u1"}, Statuses, Limits, Offsets)
    \/ \E j \in JobIds :
        \/ Claim(j)
        \/ WorkerStart(j)
        \/ WorkerComplete(j)
        \/ WorkerFinish(j)

SpecList == Init /\ [][NextList]_vars

\* SpecStats: getStats() calls of two users, one at a time, while create()
\* calls fill the store and a worker whose work succeeds runs the jobs
NextStats ==
    \/ CreateNoKey({1}, Users, {NoPriority}, MaxJobsStats)
    \/ Stats({1}, Users)
    \/ \E j \in JobIds :
        \/ Claim(j)
        \/ WorkerStart(j)
        \/ WorkerComplete(j)
        \/ WorkerFinish(j)

SpecStats == Init /\ [][NextStats]_vars

\* the bodies of the POST /jobs requests of SpecValidate
BodyTypes == {"CODE_EXECUTION", "UNKNOWN"}
BodyPriorities == {Omitted, {0}, {1}, {10}, {11}}

\* SpecValidate: POST /jobs requests with well-formed and malformed bodies, and
\* the worker
NextValidate ==
    \/ Post(Slots, {"u1"}, BodyTypes, BodyPriorities, MaxJobsValidate)
    \/ Worker

SpecValidate == Init /\ [][NextValidate]_vars

\* SpecKeys: create() calls of two users with the same key, one call at a time,
\* cancel() calls of user u1, and the worker
NextKeys ==
    \/ CreateKeyed({1}, Users, Keys \ {NoKey}, {NoPriority}, MaxJobsKeys)
    \/ CreateAddJob(1)
    \/ Cancel({1}, 1..MaxJobsKeys, {"u1"})
    \/ Worker

SpecKeys == Init /\ [][NextKeys]_vars

\* login, refresh, logout and authenticated requests over the issued tokens
NextAuth ==
    \/ \E c \in AuthSlots :
        \/ LoginStart(c)
        \/ LoginGenerate(c)
        \/ \E r \in TokenIds :
            \/ RefreshRejected(c, r)
            \/ RefreshFound(c, r)
            \/ \E a \in TokenIds : LogoutStart(c, r, a)
        \/ RefreshDelete(c)
        \/ RefreshGenerate(c)
        \/ LogoutDeleteMany(c)
        \/ LogoutSetex(c)
        \/ \E a \in TokenIds :
            \/ AuthInvalid(c, a)
            \/ AuthVerified(c, a)
        \/ AuthGet(c)
        \/ AuthUser(c)
    \/ Tick

SpecAuth == Init /\ [][NextAuth]_vars

\* login, refresh and logout calls that run side by side
NextRotate ==
    \/ \E c \in AuthSlots :
        \/ LoginStart(c)
        \/ LoginGenerate(c)
        \/ \E r \in TokenIds :
            \/ RefreshRejected(c, r)
            \/ RefreshFound(c, r)
            \/ \E a \in TokenIds : LogoutStart(c, r, a)
        \/ RefreshDelete(c)
        \/ RefreshGenerate(c)
        \/ LogoutDeleteMany(c)
        \/ LogoutSetex(c)
    \/ Tick

SpecRotate == Init /\ [][NextRotate]_vars

\* getById, update and delete calls on one project, side by side
NextProject ==
    \/ \E c \in ProjSlots :
        \/ GetByIdCached(c)
        \/ GetByIdMiss(c)
        \/ GetByIdFind(c)
        \/ GetByIdSetex(c)
        \/ UpdateRow(c)
        \/ UpdateDel(c)
        \/ DeleteRow(c)
        \/ DeleteDel(c)
    \/ Tick

SpecProject == Init /\ [][NextProject]_vars

\* one submission, never retried: create, cancel and the worker
NextAutomatic ==
    \/ CreateNoKey(Slots, {"u1"}, {NoPriority}, MaxJobsLife)
    \/ Cancel(Slots, 1..MaxJobsLife, {"u1"})
    \/ Worker

SpecAutomatic == Init /\ [][NextAutomatic]_vars

\* create, cancel and the worker, with a queue that may fail a cancel()
NextTolerant ==
    \/ CreateNoKey(Slots, {"u1"}, {NoPriority}, MaxJobsTolerant)
    \/ Cancel(Slots, 1..MaxJobsTolerant, {"u1"})
    \/ \E c \in Slots : CancelQueueError(c)
    \/ Worker

SpecTolerant == Init /\ [][NextTolerant]_vars

\* jobs that are submitted and never cancelled or retried, with a worker that
\* keeps running: a worker step that stays possible is eventually taken
NextLive ==
    \/ CreateNoKey({1}, {"u1"}, {NoPriority}, MaxJobsLive)
    \/ Worker

SpecLive == Init /\ [][NextLive]_vars /\ WF_vars(Worker)

\* jobs that are submitted and left to the worker, with the time of the queue
NextBackoff ==
    \/ CreateNoKey({1}, {"u1"}, {NoPriority}, MaxJobsBackoff)
    \/ \E j \in JobIds :
        \/ Claim(j)
        \/ WorkerStart(j)
        \/ WorkerComplete(j)
        \/ WorkerFinish(j)
        \/ WorkerFail(j)
        \/ FailedListener(j)
        \/ PromoteDue(j)
    \/ Tick

SpecBackoff == Init /\ [][NextBackoff]_vars

\* createJobSchema: idempotencyKey is z.string().optional(), every string is
\* accepted, the empty one included
AcceptedKeys == {"", "k1"}

\* submits made one at a time with the keys that validation accepts
NextAccepted ==
    \/ \E u \in Users : CreateInsertNoKey(1, u, "", NoPriority, MaxJobsAccepted)
    \/ CreateKeyed({1}, Users, AcceptedKeys \ {""}, {NoPriority}, MaxJobsAccepted)
    \/ CreateAddJob(1)
    \/ \E j \in JobIds :
        \/ Claim(j)
        \/ WorkerStart(j)
        \/ WorkerComplete(j)
        \/ WorkerFinish(j)

SpecAccepted == Init /\ [][NextAccepted]_vars

\* ------------------------------------------------------------------ claims
\* a step of a cancel(jobId, userId) call that reads the record
CancelCall(c, j, u) == CancelNotFound(c, j, u) \/ CancelInvalid(c, j, u) \/ CancelRead(c, j, u)

\* a step of a retry(jobId, userId) call that reads the record
RetryCall(c, j, u) == RetryNotFound(c, j, u) \/ RetryInvalid(c, j, u) \/ RetryRead(c, j, u)

Owned(j, u) == FindJob(j, u) # {}

\* the first step of a create() call of user u with key k
CreateCall(c, u, k) ==
    \E p \in Priorities :
        \/ CreateDuplicate(c, u, k, p)
        \/ CreateMiss(c, u, k, p, MaxJobs)
        \/ CreateInsertNoKey(c, u, k, p, MaxJobs)

\* the records of user u that carry key k, in the order of their creation
Submitted(js, u, k) ==
    {i \in 1..Len(js) : js[i].userId = u /\ js[i].idempotencyKey = k}

\* C1: once a record of (owner, key) exists, every create() of that owner with
\* that key answers duplicate=true with the jobId of the first such record,
\* whatever its status, and adds no record and no queue entry; the first record
\* of (owner, key) stays the first
C1_SequentialIdempotency ==
    [][\A u \in Users, k \in Keys \ {NoKey} :
          Submitted(jobs, u, k) # {}
          => /\ Submitted(jobs', u, k) # {}
             /\ Min(Submitted(jobs', u, k)) = Min(Submitted(jobs, u, k))
             /\ \A c \in Slots :
                   CreateCall(c, u, k)
                   => /\ ret'.op = "create" /\ ret'.code = "ok" /\ ret'.duplicate
                      /\ ret'.jobId = jobs[Min(Submitted(jobs, u, k))].jobId
                      /\ jobs' = jobs
                      /\ queue' = queue
                      /\ waiting' = waiting
                      /\ calls' = calls]_vars

\* a second create() with the key of a completed job was answered with that job,
\* and there is still one record
C1_Witness ==
    /\ ret.op = "create"
    /\ ret.duplicate
    /\ Len(jobs) = 1
    /\ ret.jobId = 1
    /\ jobs[1].idempotencyKey = "k1"
    /\ jobs[1].status = COMPLETED
    /\ \A c \in Slots : calls[c].op = "idle"

\* C2: under every interleaving of create() calls there are at most one record
\* and one queue entry of an (owner, key)
C2_OneJobPerKey ==
    \A u \in Users, k \in Keys \ {NoKey} :
        /\ Cardinality(Submitted(jobs, u, k)) <= 1
        /\ Cardinality({i \in Submitted(jobs, u, k) : queue[i].state # "absent"}) <= 1

\* call c has just created its record
Inserted(c) ==
    /\ calls'[c].op = "create"
    /\ calls'[c].pc = "addJob"
    /\ ~(calls[c].op = "create" /\ calls[c].pc = "addJob")

\* C3: a create() that is no duplicate adds exactly one record, PENDING with
\* attempts 0, maxAttempts 3, the caller as owner and the requested priority (5 when
\* omitted), then adds exactly one waiting queue entry of that jobId and priority
\* and answers duplicate=false
C3_CreateOnMiss ==
    [][/\ jobs' # jobs /\ Len(jobs') # Len(jobs)
          => /\ Len(jobs') = Len(jobs) + 1
             /\ SubSeq(jobs', 1, Len(jobs)) = jobs
             /\ Cardinality({c \in Slots : Inserted(c)}) = 1
       /\ \A c \in Slots :
            Inserted(c)
            => LET doc == jobs'[Len(jobs')] IN
                /\ Len(jobs') = Len(jobs) + 1
                /\ doc.jobId = calls'[c].jobId
                /\ \A i \in 1..Len(jobs) : jobs[i].jobId # doc.jobId
                /\ doc.status = PENDING
                /\ doc.attempts = 0
                /\ doc.maxAttempts = 3
                /\ doc.userId = calls'[c].userId
                /\ doc.idempotencyKey = calls'[c].key
                /\ doc.priority = IF calls'[c].priority = NoPriority THEN 5
                                  ELSE calls'[c].priority
                /\ queue' = queue /\ waiting' = waiting
       /\ \A c \in Slots :
            CreateAddJob(c)
            => LET id == calls[c].jobId IN
                /\ ret' = [op |-> "create", code |-> "ok", jobId |-> id,
                           duplicate |-> FALSE]
                /\ queue[id].state = "absent"
                /\ queue'[id].state = "waiting"
                /\ queue'[id].priority = jobs[id].priority
                /\ \A j \in JobIds \ {id} : queue'[j] = queue[j]
                /\ waiting' = Append(waiting, id)
                /\ jobs' = jobs]_vars

\* a create() without priority has returned: its record and its queue entry
\* have priority 5
C3_Witness ==
    /\ ret.op = "create"
    /\ ~ret.duplicate
    /\ ret.jobId \in 1..Len(jobs)
    /\ jobs[ret.jobId].status = PENDING
    /\ jobs[ret.jobId].attempts = 0
    /\ jobs[ret.jobId].priority = 5
    /\ jobs[ret.jobId].idempotencyKey = "k1"
    /\ queue[ret.jobId].state = "waiting"
    /\ queue[ret.jobId].priority = 5

\* C4: in every reachable state every record has 0 <= attempts <= maxAttempts
C4_AttemptBound ==
    \A i \in 1..Len(jobs) : 0 <= jobs[i].attempts /\ jobs[i].attempts <= jobs[i].maxAttempts

\* the third attempt of a job has failed for good
C4_Witness ==
    \E i \in 1..Len(jobs) :
        /\ jobs[i].attempts = jobs[i].maxAttempts
        /\ jobs[i].status = FAILED
        /\ queue[i].state = "failed"

IsCancelled(js, q, id) ==
    /\ js[id].status = FAILED
    /\ js[id].error = CancelledByUser
    /\ js[id].completedAt = Set
    /\ q[id].state \notin {"waiting", "delayed"}

C7_RetryPrecondition ==
    [][/\ \A c \in Slots, j \in JobIds, u \in Users :
            (RetryCall(c, j, u) /\ Owned(j, u)
               /\ jobs[j].status \in {PENDING, PROCESSING, COMPLETED})
            => /\ ret'.op = "retry" /\ ret'.code = "InvalidState" /\ ret'.jobId = j
               /\ jobs' = jobs
               /\ queue' = queue
               /\ waiting' = waiting
               /\ calls' = calls
       /\ \A c \in Slots :
            calls'[c].op = "retry" => calls'[c].snap.status = FAILED]_vars

\* a retry of a completed job was refused
C7_Witness ==
    /\ ret.op = "retry"
    /\ ret.code = "InvalidState"
    /\ ret.jobId \in 1..Len(jobs)
    /\ jobs[ret.jobId].status = COMPLETED

\* the record as retry() is to leave it
IsReset(doc) ==
    /\ doc.status = PENDING
    /\ doc.attempts = 0
    /\ doc.error = Null
    /\ doc.result = Null
    /\ doc.startedAt = Null
    /\ doc.completedAt = Null

\* C8: the save of a retry() that no worker step has interleaved with leaves the
\* record PENDING with attempts 0 and error, result, startedAt, completedAt cleared
C8_RetryReset ==
    [][\A c \in Slots :
          (RetrySave(c) /\ "worker" \notin calls[c].seen)
          => IsReset(jobs'[calls[c].jobId])]_vars

\* a job whose three attempts failed has been reset by retry()
C8_Witness ==
    \E c \in Slots :
        /\ calls[c].op = "retry"
        /\ calls[c].pc = "addJob"
        /\ calls[c].snap.attempts = MaxAttemptsDefault
        /\ "worker" \notin calls[c].seen
        /\ IsReset(jobs[calls[c].jobId])

\* C9: every retry() that returns leaves a fresh entry of the job waiting in the
\* queue at the priority of the record
C9_RetryReenqueues ==
    [][\A c \in Slots :
          RetryAddJob(c)
          => LET id == calls[c].jobId IN
                /\ queue'[id].state = "waiting"
                /\ queue'[id].attemptsMade = 0
                /\ queue'[id].priority = jobs[id].priority
                /\ \E i \in 1..Len(waiting') : waiting'[i] = id]_vars

\* C10: a worker claims a waiting entry of the highest priority value and, among
\* those, the one added first
C10_HighestPriorityFirst ==
    [][\A j \in JobIds :
          Claim(j)
          => \E i \in 1..Len(waiting) :
                /\ waiting[i] = j
                /\ \A h \in 1..Len(waiting) :
                      /\ queue[waiting[h]].priority <= queue[j].priority
                      /\ (queue[waiting[h]].priority = queue[j].priority => i <= h)]_vars

\* user u owns the record of job j
OwnedBy(js, j, u) == j \in 1..Len(js) /\ js[j].userId = u

\* a step of a getById(jobId, userId) call
GetCall(c, j, u) == GetNotFound(c, j, u) \/ GetFound(c, j, u)

RECURSIVE SumOver(_, _)
\* the sum of the values of f over the keys of D
SumOver(f, D) ==
    IF D = {} THEN 0
    ELSE LET d == CHOOSE x \in D : TRUE IN f[d] + SumOver(f, D \ {d})

\* C11: get, cancel and retry of a job the caller does not own answer NotFound,
\* exactly as for a job id that does not exist, and change neither the records
\* nor the queue; the page and the total of list and the counts of stats.user
\* cover records of the caller only
C11_OwnerIsolation ==
    [][/\ \A c \in Slots, j \in JobIds, u \in Users :
            (~OwnedBy(jobs, j, u)
               /\ (GetCall(c, j, u) \/ CancelCall(c, j, u) \/ RetryCall(c, j, u)))
            => /\ ret'.code = "NotFound"
               /\ ret' = [op |-> ret'.op, code |-> "NotFound", jobId |-> j,
                          duplicate |-> FALSE]
               /\ UNCHANGED <<jobs, queue, waiting, pendingFailed, calls>>
       /\ \A c \in Slots :
            /\ (ListFind(c) /\ calls'[c].op = "list")
               => \A k \in 1..Len(calls'[c].snap.page) :
                     OwnedBy(jobs, calls'[c].snap.page[k], calls[c].userId)
            /\ (ListCount(c) /\ calls'[c].op = "list")
               => calls'[c].snap.total
                     = Cardinality({i \in 1..Len(jobs) : OwnedBy(jobs, i, calls[c].userId)})
            /\ (StatsAggregate(c) /\ calls'[c].op = "stats")
               => LET user == calls'[c].snap.user IN
                     SumOver(user, DOMAIN user)
                        = Cardinality({i \in 1..Len(jobs) :
                                          OwnedBy(jobs, i, calls[c].userId)})
       /\ ret'.op = "list"
            => /\ \A k \in 1..Len(ret'.page) : OwnedBy(jobs', ret'.page[k], ret'.userId)
               /\ ret'.total <= Cardinality({i \in 1..Len(jobs') :
                                                OwnedBy(jobs', i, ret'.userId)})
       /\ ret'.op = "stats"
            => SumOver(ret'.user, DOMAIN ret'.user)
                  <= Cardinality({i \in 1..Len(jobs') : OwnedBy(jobs', i, ret'.userId)})
       /\ (ret'.op = "get" /\ ret'.code = "ok") => ret'.job.userId = ret'.userId]_vars

\* a retry of a failed (cancelled) job of user u1 by the other user was answered
\* NotFound
C11_Witness ==
    /\ ret.op = "retry"
    /\ ret.code = "NotFound"
    /\ ret.jobId \in 1..Len(jobs)
    /\ jobs[ret.jobId].status = FAILED
    /\ jobs[ret.jobId].userId = "u1"

\* C12: when the enqueue of a create() fails, the call fails and the record it
\* created is not left in the store as PENDING
C12_NoOrphanOnQueueFailure ==
    [][\A c \in Slots :
          CreateAddJobFails(c)
          => /\ ret'.op = "create" /\ ret'.code # "ok"
             /\ \A i \in 1..Len(jobs') :
                   jobs'[i].jobId = calls[c].jobId => jobs'[i].status # PENDING]_vars

\* C13: the status of a record becomes FAILED only by the save of a cancel() or
\* by a work failure on the attempt where attempts = maxAttempts; a work failure
\* with attempts < maxAttempts leaves the record PENDING with no error
C13_FailedOnlyWhenExhausted ==
    [][\A j \in 1..Len(jobs) :
          /\ (jobs[j].status # FAILED /\ jobs'[j].status = FAILED)
             => \/ \E c \in Slots : CancelSave(c) /\ calls[c].jobId = j
                \/ jobs'[j].attempts = jobs'[j].maxAttempts
          /\ (FailedListener(j) /\ jobs[j].attempts < jobs[j].maxAttempts)
             => /\ jobs'[j].status = PENDING
                /\ jobs'[j].error = Null]_vars

\* C14: in every reachable state completedAt is set only on records that are
\* COMPLETED or FAILED
C14_CompletedAtOnlyTerminal ==
    \A i \in 1..Len(jobs) :
        jobs[i].completedAt # Null => jobs[i].status \in {COMPLETED, FAILED}

\* C15: in every reachable state a result is present only on COMPLETED records
\* and an error only on FAILED records
C15_ResultAndErrorMatchStatus ==
    \A i \in 1..Len(jobs) :
        /\ jobs[i].result # Null => jobs[i].status = COMPLETED
        /\ jobs[i].error # Null => jobs[i].status = FAILED

\* C16: once a record is COMPLETED no step of any actor changes its status
C16_CompletedIsTerminal ==
    [][\A i \in 1..Len(jobs) :
          jobs[i].status = COMPLETED => jobs'[i].status = COMPLETED]_vars

\* C17: no save of a cancel() or a retry() changes the status of a record that is
\* stored as PROCESSING when the save is applied
C17_WorkerOwnsProcessing ==
    [][\A c \in Slots :
          ((CancelSave(c) \/ RetrySave(c)) /\ jobs[calls[c].jobId].status = PROCESSING)
          => jobs'[calls[c].jobId].status = PROCESSING]_vars

\* the records of user u that a list with status filter st is to cover
Listed(js, u, st) ==
    {i \in 1..Len(js) : OwnedBy(js, i, u) /\ (st # NoStatus => js[i].status = st)}

\* n records are at most k records; no page has fewer than 0 records
AtMost(n, k) == n <= (IF k < 0 THEN 0 ELSE k)

\* the page a find has just answered with
PageFound(c) == IF calls'[c].op = "list" THEN calls'[c].snap.page ELSE ret'.page

\* the total a count has just answered with
TotalCounted(c) == IF calls'[c].op = "list" THEN calls'[c].snap.total ELSE ret'.total

\* C18: the page of a list holds at most min(limit, 100) records, at most 20 when
\* the limit is omitted, all of them records of the caller that match the status
\* filter, latest first; the total is the number of the caller's records that
\* match the filter
C18_PaginationClamp ==
    [][\A c \in Slots :
          LET u == calls[c].userId
              st == calls[c].snap.status
              l == calls[c].snap.limit
          IN /\ ListFind(c)
                => /\ AtMost(Len(PageFound(c)),
                             IF Given(l) THEN Min({Value(l), 100}) ELSE 20)
                   /\ \A k \in 1..Len(PageFound(c)) : PageFound(c)[k] \in Listed(jobs, u, st)
                   /\ \A k \in 1..(Len(PageFound(c)) - 1) :
                         PageFound(c)[k] > PageFound(c)[k + 1]
             /\ ListCount(c)
                => TotalCounted(c) = Cardinality(Listed(jobs, u, st))]_vars

\* the user counts an aggregate has just answered with
UserCounted(c) == IF calls'[c].op = "stats" THEN calls'[c].snap.user ELSE ret'.user

\* the queue counts a stats call holds after its step
QueueCounted(c) ==
    IF calls'[c].op = "stats" THEN calls'[c].snap.counts ELSE ret'.queue

\* the records of user u in status st
InStatus(js, u, st) == {i \in 1..Len(js) : OwnedBy(js, i, u) /\ js[i].status = st}

\* C19: stats.user has one key for every status in which the caller has a record,
\* with the number of the caller's records in that status, and the counts sum to
\* the number of the caller's records; stats.queue holds the numbers of waiting,
\* active, completed and failed jobs of the whole queue, whoever the caller is
C19_StatsCounts ==
    [][\A c \in Slots :
          LET u == calls[c].userId IN
          /\ StatsAggregate(c)
             => /\ DOMAIN UserCounted(c) = {st \in JobStatus : InStatus(jobs, u, st) # {}}
                /\ \A st \in DOMAIN UserCounted(c) :
                      UserCounted(c)[st] = Cardinality(InStatus(jobs, u, st))
                /\ SumOver(UserCounted(c), DOMAIN UserCounted(c))
                      = Cardinality({i \in 1..Len(jobs) : OwnedBy(jobs, i, u)})
          /\ StatsQueueCount(c)
             => LET k == Len(QueueCounted(c))
                    state == <<"waiting", "active", "completed", "failed">>[k]
                IN /\ k = Len(calls[c].snap.counts) + 1
                   /\ QueueCounted(c)[k]
                         = Cardinality({j \in JobIds : queue[j].state = state})
          /\ (ret'.op = "stats" /\ calls[c].op = "stats" /\ calls'[c].op = "idle")
             => /\ ret'.userId = u
                /\ Len(ret'.queue) = 4]_vars

\* the stats of u1 have returned: its one record is completed, the pending record
\* of u2 is not counted, and the queue holds a waiting and a completed job
C19_Witness ==
    /\ ret.op = "stats"
    /\ ret.userId = "u1"
    /\ ret.user = [st \in {COMPLETED} |-> 1]
    /\ ret.queue = <<1, 0, 1, 0>>
    /\ \E i \in 1..Len(jobs) : jobs[i].userId = "u2" /\ jobs[i].status = PENDING

\* a body with an unknown type or a priority outside [1,10]
Malformed(type, priority) ==
    \/ type \notin {"CODE_EXECUTION", "FILE_PROCESSING", "DATA_ANALYSIS", "EXPORT"}
    \/ \E v \in priority : v < 1 \/ v > 10

\* the first step of a POST /jobs request
PostCall(c, u, t, p) == PostInvalid(c, u, t, p) \/ PostValid(c, u, t, p, MaxJobs)

\* C20: a submission with an unknown type or a priority outside [1,10] is
\* answered at once with a validation error and adds no record and no queue
\* entry; no record and no queue entry has a priority outside [1,10]
C20_ValidationRejects ==
    [][/\ \A c \in Slots, u \in Users, t \in BodyTypes, p \in BodyPriorities :
            (Malformed(t, p) /\ PostCall(c, u, t, p))
            => /\ ret'.op = "create" /\ ret'.code = "ValidationError"
               /\ UNCHANGED <<jobs, queue, waiting, pendingFailed, calls>>
       /\ \A i \in 1..Len(jobs') : jobs'[i].priority \in 1..10
       /\ \A j \in JobIds : queue'[j].state # "absent" => queue'[j].priority \in 1..10]_vars

\* a submission with a priority outside [1,10] was rejected after another one
\* was accepted: there is still one record and one queue entry
C20_Witness ==
    /\ ret.op = "create"
    /\ ret.code = "ValidationError"
    /\ ret.fields = {"priority"}
    /\ Len(jobs) = 1
    /\ Cardinality({j \in JobIds : queue[j].state # "absent"}) = 1
    /\ \A c \in Slots : calls[c].op = "idle"

\* C21: a create() of an owner with a key that a record of that owner carries, in
\* whatever status, answers with that record and adds nothing; a create() with a
\* key that only records of other owners carry is no duplicate and adds a record
\* of its caller; a duplicate answer never names a record of another owner
C21_KeyScopedPerOwner ==
    [][/\ \A c \in Slots, u \in Users, k \in Keys \ {NoKey} :
            CreateCall(c, u, k)
            => IF Submitted(jobs, u, k) # {}
               THEN /\ ret'.op = "create" /\ ret'.duplicate
                    /\ ret'.jobId \in Submitted(jobs, u, k)
                    /\ jobs' = jobs /\ queue' = queue /\ waiting' = waiting
               ELSE /\ ret' = ret
                    /\ calls'[c].op = "create"
                    /\ calls'[c].userId = u
                    /\ calls'[c].key = k
       /\ \A c \in Slots :
            CreateInsert(c)
            => /\ Len(jobs') = Len(jobs) + 1
               /\ jobs'[Len(jobs')].userId = calls[c].userId
               /\ jobs'[Len(jobs')].idempotencyKey = calls[c].key
               /\ SubSeq(jobs', 1, Len(jobs)) = jobs]_vars

\* both users have a record with key k1, the one of u1 is cancelled, and a
\* create() with k1 was answered with that cancelled record
C21_Witness ==
    /\ ret.op = "create"
    /\ ret.duplicate
    /\ ret.jobId = 1
    /\ Len(jobs) = 2
    /\ jobs[1].userId # jobs[2].userId
    /\ jobs[1].idempotencyKey = "k1"
    /\ jobs[2].idempotencyKey = "k1"
    /\ jobs[1].status = FAILED
    /\ jobs[1].error = CancelledByUser

\* a refreshToken(r) call arrives
RefreshCall(c, r) == RefreshRejected(c, r) \/ RefreshFound(c, r)

C23_ClaimCountsOneAttempt ==
    [][\A j \in 1..Len(jobs) :
          WorkerStart(j) =>
              /\ jobs'[j].status = PROCESSING
              /\ jobs'[j].startedAt = Set
              /\ jobs'[j].attempts = jobs[j].attempts + 1]_vars

\* C29: a record that is PROCESSING or COMPLETED has startedAt set and
\* attempts >= 1, also when a retry() or cancel() that read the record earlier
\* saves between the writes of the worker.
C29_ProgressConsistent ==
    \A j \in 1..Len(jobs) :
        jobs[j].status \in {PROCESSING, COMPLETED} =>
            /\ jobs[j].startedAt = Set
            /\ jobs[j].attempts >= 1

\* the fields of a record that no write names
Identity(doc) ==
    [jobId |-> doc.jobId, userId |-> doc.userId, priority |-> doc.priority,
     idempotencyKey |-> doc.idempotencyKey, maxAttempts |-> doc.maxAttempts]

\* C30: no step of cancel(), retry() or the worker changes the jobId, owner,
\* priority, idempotencyKey or maxAttempts of a record (type and payload are
\* not part of the state), no record disappears, and the save of cancel()
\* leaves attempts, result and startedAt as they are.
C30_FrameOfWrites ==
    [][/\ Len(jobs') >= Len(jobs)
       /\ \A j \in 1..Len(jobs) : Identity(jobs'[j]) = Identity(jobs[j])
       /\ \A c \in Slots :
            CancelSave(c) =>
                LET id == calls[c].jobId IN
                /\ jobs'[id].attempts = jobs[id].attempts
                /\ jobs'[id].result = jobs[id].result
                /\ jobs'[id].startedAt = jobs[id].startedAt]_vars

\* a cancel() has saved over a record the worker had started: attempts and
\* startedAt are those the worker wrote
C30_Witness ==
    /\ ret.op = "cancel"
    /\ ret.code = "ok"
    /\ jobs[ret.jobId].status = FAILED
    /\ jobs[ret.jobId].error = CancelledByUser
    /\ jobs[ret.jobId].attempts >= 1
    /\ jobs[ret.jobId].startedAt = Set

\* the number of times job j waits for a worker
TimesWaiting(j) == Cardinality({i \in 1..Len(waiting) : waiting[i] = j})

\* C25: whatever the interleaving of create, cancel, retry and worker steps,
\* a jobId has one queue entry: it waits at most once, and exactly when its
\* entry is in state waiting (never while it is delayed or active); and the
\* worker takes only a waiting entry, so that no job is executed twice at a
\* time.
C25_NoDoubleExecution ==
    [][\A j \in JobIds :
          /\ TimesWaiting(j)' <= 1
          /\ (TimesWaiting(j)' = 1) <=> (queue'[j].state = "waiting")
          /\ Claim(j) => /\ queue[j].state = "waiting"
                         /\ queue'[j].state = "active"
                         /\ TimesWaiting(j)' = 0]_vars

\* a retry() has added the job again while the worker was executing its
\* entry: the add was ignored
C25_Witness ==
    /\ ret.op = "retry"
    /\ ret.code = "ok"
    /\ queue[ret.jobId].state = "active"
    /\ queue[ret.jobId].pc = "work"
    /\ jobs[ret.jobId].status = PENDING
    /\ TimesWaiting(ret.jobId) = 0

\* the number of times the work function of job j has been invoked since its
\* entry was added
Invocations(j) ==
    queue[j].attemptsMade
        + (IF queue[j].state = "active" /\ queue[j].pc # "start" THEN 1 ELSE 0)
        + (IF queue[j].state = "completed" THEN 1 ELSE 0)

\* the record of a job whose work has failed
FailedByWork(doc) ==
    /\ doc.status = FAILED
    /\ doc.error = SimulatedFailure
    /\ doc.completedAt = Set

\* C24: a job that is submitted and not retried is executed at most
\* maxAttempts times; once its last execution has failed and the failure is
\* written, the record is FAILED with the message of the failure and
\* completedAt set and stays so, and the job is not executed again.
C24_BoundedAutomaticRetries ==
    [][\A j \in 1..Len(jobs) :
          /\ Invocations(j)' <= jobs[j].maxAttempts
          /\ (queue[j].state = "failed" /\ pendingFailed[j] = 0) =>
                /\ FailedByWork(jobs[j])
                /\ FailedByWork(jobs'[j])
          /\ queue[j].state = "failed" => queue'[j].state \in {"failed", "absent"}]_vars

\* the last call that returned is a cancel() that succeeded and whose remove()
\* took the entry of the job out of the queue while it was waiting for its
\* first attempt, and no retry() of the job has been called since the
\* removal: no addJob has ended a call during the cancel(), and the retry()
\* calls in progress are those that were in progress at the removal
CancelledWhileWaiting ==
    /\ ret.op = "cancel"
    /\ ret.code = "ok"
    /\ ret.fresh
    /\ RetriesInFlight(ret.jobId) \subseteq ret.inflight

\* the record is as cancel() wrote it and the queue has no entry of the job,
\* so that no worker executes it
StaysCancelled(js, q, id) ==
    /\ js[id].status = FAILED
    /\ js[id].error = CancelledByUser
    /\ q[id].state = "absent"

\* C26: after a cancel() that succeeded and removed the waiting entry of the
\* job, and until a retry() is called, the record stays FAILED with error
\* "Cancelled by user" and the job has no queue entry, so that its work is
\* not executed.
C26_CancelGuarantee ==
    [][CancelledWhileWaiting =>
          /\ StaysCancelled(jobs, queue, ret.jobId)
          /\ StaysCancelled(jobs', queue', ret.jobId)]_vars

\* C27: a cancel() that has passed its PENDING check ends in one way only,
\* whether the entry was not found, was active, or getJob or remove failed:
\* it returns "Job cancelled" and its save writes FAILED, "Cancelled by user"
\* and completedAt; no step before the save touches the record.
C27_CancelTolerant ==
    [][\A c \in Slots :
          calls[c].op = "cancel" =>
              LET id == calls[c].jobId IN
              \/ /\ calls'[c].op = "cancel"
                 /\ calls'[c].jobId = id
                 /\ calls'[c].pc \in {"getJob", "remove", "save"}
                 /\ CancelQueueError(c) => jobs' = jobs /\ queue' = queue
              \/ /\ CancelSave(c)
                 /\ calls'[c] = Idle
                 /\ ret'.op = "cancel" /\ ret'.code = "ok" /\ ret'.jobId = id
                 /\ jobs'[id].status = FAILED
                 /\ jobs'[id].error = CancelledByUser
                 /\ jobs'[id].completedAt = Set]_vars

\* a cancel() whose getJob or remove had failed has returned success and
\* written the record, while the entry still waits
C27_Witness ==
    /\ ret.op = "cancel"
    /\ ret.code = "ok"
    /\ ret.queueError
    /\ ~ret.fresh
    /\ queue[ret.jobId].state = "waiting"
    /\ jobs[ret.jobId].status = FAILED
    /\ jobs[ret.jobId].error = CancelledByUser

\* the worker has nothing left to do or to write for job j
Settled(j) ==
    /\ queue[j].state \in {"completed", "failed"}
    /\ pendingFailed[j] = 0

\* C28: with a worker that keeps running, every job that was submitted and
\* is never cancelled is eventually settled with its record COMPLETED or
\* FAILED, and the record of a settled job tells the outcome of its last
\* execution: COMPLETED if it succeeded, FAILED if the attempts are exhausted.
C28_EventualTermination ==
    /\ \A j \in JobIds :
          (queue[j].state # "absent") ~>
              (Settled(j) /\ jobs[j].status \in {COMPLETED, FAILED})
    /\ [](\A j \in 1..Len(jobs) :
            Settled(j) =>
                /\ queue[j].state = "completed" => jobs[j].status = COMPLETED
                /\ queue[j].state = "failed" => jobs[j].status = FAILED)

C32_ReportedPagination ==
    [][\A c \in Slots :
          (calls[c].op = "list" /\ calls'[c].op # "list") =>
              /\ ret'.op = "list"
              /\ ret'.limit \in 1..100
              /\ ret'.offset >= 0
              /\ ret'.hasMore <=> (ret'.offset + Len(ret'.page) < ret'.total)]_vars

\* a create(u, {idempotencyKey: k}) call arrives
SubmitCall(c, u, k) ==
    \/ CreateDuplicate(c, u, k, NoPriority)
    \/ CreateMiss(c, u, k, NoPriority, MaxJobsAccepted)
    \/ CreateInsertNoKey(c, u, k, NoPriority, MaxJobsAccepted)

\* C33: for every key that validation accepts, the empty string included, a
\* submit of an owner who has a record with that key answers duplicate=true
\* with the jobId of that record and adds no record.
C33_AcceptedKeyIsPresent ==
    [][\A u \in Users, k \in AcceptedKeys :
          Submitted(jobs, u, k) # {}
          => \A c \in Slots :
                SubmitCall(c, u, k)
                => /\ ret'.op = "create" /\ ret'.code = "ok" /\ ret'.duplicate
                   /\ ret'.jobId = jobs[Min(Submitted(jobs, u, k))].jobId
                   /\ jobs' = jobs]_vars

\* the token pairs that were issued in exchange for refresh token r
Exchanged(r) == {t \in Issued : tokens[t].from = r}

\* C34: of the refreshToken calls that present one stored refresh token, at
\* most one returns a new token pair, whatever the interleaving; once a pair
\* was returned for it the token is not stored and no call is left that is
\* going to exchange it.
C34_RotationSingleUse ==
    \A r \in Issued :
        /\ Cardinality(Exchanged(r)) <= 1
        /\ Exchanged(r) # {}
           => /\ r \notin stored
              /\ \A c \in AuthSlots :
                    ~ /\ authCalls[c].op = "refresh"
                      /\ authCalls[c].pc = "generate"
                      /\ authCalls[c].refresh = r

\* two calls presented the same stored token side by side: one was given a
\* pair, the other one was rejected by the delete
C34_Witness ==
    \E r \in Issued :
        /\ Exchanged(r) # {}
        /\ r \notin loggedOut.refresh
        /\ authRet = [op |-> "refresh", code |-> "RecordNotFound", token |-> r]

\* C35: getById returns the cached project when the key is found, and reads
\* the row and caches it otherwise; a getById that starts after an update or a
\* delete has returned does not return the project as it was before, whatever
\* the getById calls in progress during the update did.
C35_CacheCoherence ==
    [][\A c \in ProjSlots :
          /\ GetByIdCached(c) => projRet'.version = cache.version
          /\ GetByIdSetex(c) => /\ cache'.present
                                /\ cache'.version = projRet'.version
          /\ (GetByIdCached(c) \/ GetByIdSetex(c))
             => /\ projRet'.version >= projRet'.floor.version
                /\ ~projRet'.floor.deleted]_vars

====
